---- MODULE Spec2Model ----
(***************************************************************************)
(* Tether backend: the Link meeting lifecycle, the Team membership         *)
(* registry and stats aggregator, and the User/Team reputation functions,  *)
(* modelled from src/unnamed/part_003 (models/Link.js, models/User.js),    *)
(* src/models/Team.js, src/routes/links.js, src/unnamed/part_006           *)
(* (routes/teams.js) and GET /me of src/routes/users.js.                   *)
(*                                                                         *)
(* JavaScript Numbers that can be fractional (rates, averages, scores) are *)
(* exact rationals [n, d] here; floating-point rounding is not modelled.   *)
(* Dates are readings of the logical clock `now`.                          *)
(***************************************************************************)
EXTENDS Integers, Sequences, FiniteSets, TLC

VARIABLES
  users,   \* the User collection: a function from the ids of stored users
  teams,   \* the Team collection: a function from the ids of stored teams
  links,   \* the Link collection: a function from the ids of stored links
  tdoc,    \* an in-memory Team document (method-level specifications)
  udoc,    \* an in-memory User document (method-level specifications)
  resp,    \* the last request handled and the response it got
  now,     \* the clock read by `new Date()`
  reqs     \* the requests in flight: where each stands and what it loaded

vars == <<users, teams, links, tdoc, udoc, resp, now, reqs>>

----------------------------------------------------------------------------
(* Bounds *)

MaxClock == 3        \* requests handled in one behaviour
MaxNoteLen == 1      \* characters in a notes text of a request
MaxInitOutcomes == 1 \* outcomes of a Link document stored at start-up

----------------------------------------------------------------------------
(* Numbers *)

Abs(x) == IF x < 0 THEN -x ELSE x

RECURSIVE GCD(_, _)
GCD(a, b) == IF b = 0 THEN a ELSE GCD(b, a % b)

\* the Number n/d (d # 0), in lowest terms with a positive denominator
Rat(n, d) ==
  LET s == IF d < 0 THEN -1 ELSE 1
      g == GCD(Abs(n), Abs(d))
  IN  [n |-> (s * n) \div g, d |-> (s * d) \div g]

RInt(i) == [n |-> i, d |-> 1]
RAdd(a, b) == Rat(a.n * b.d + b.n * a.d, a.d * b.d)
RSub(a, b) == Rat(a.n * b.d - b.n * a.d, a.d * b.d)
RMul(a, b) == Rat(a.n * b.n, a.d * b.d)
RDiv(a, b) == Rat(a.n * b.d, a.d * b.n)
RLe(a, b) == a.n * b.d <= b.n * a.d
RLt(a, b) == a.n * b.d < b.n * a.d
RMax(a, b) == IF RLe(a, b) THEN b ELSE a
RMin(a, b) == IF RLe(a, b) THEN a ELSE b

----------------------------------------------------------------------------
(* Identifiers and enumerations *)

UserIds == {"u1", "u2", "u3"}
TeamIds == {"t1", "t2"}
LinkIds == {"l1"}

NoDate == -1         \* a Date field holding null

LinkStatus == {"PENDING", "SCHEDULED", "IN_PROGRESS", "COMPLETED",
               "CANCELLED", "NO_SHOW"}
OutcomeStatus == {"PENDING", "IN_PROGRESS", "COMPLETED", "BLOCKED"}
OutcomeType == {"DECISION", "ACTION_ITEM", "BLOCKER", "INSIGHT", "NEXT_STEPS"}

\* a request field that is present with value v, or absent (undefined)
Some(v) == [given |-> TRUE, val |-> v]
NoNumber == [given |-> FALSE, val |-> 0]
NoText == [given |-> FALSE, val |-> <<>>]
NoString == [given |-> FALSE, val |-> ""]

\* `x || dflt` on an optional number / text: undefined, 0 and '' are falsy
OrNumber(x, dflt) == IF x.given /\ x.val # 0 THEN x.val ELSE dflt
OrText(x, dflt) == IF x.given /\ x.val # <<>> THEN x.val ELSE dflt

----------------------------------------------------------------------------
(* Texts are sequences of characters; the String setter `trim: true` *)

Chars == {"a", " "}

RECURSIVE TrimLeft(_)
TrimLeft(s) ==
  IF s # <<>> /\ Head(s) = " " THEN TrimLeft(Tail(s)) ELSE s

RECURSIVE TrimRight(_)
TrimRight(s) ==
  IF s # <<>> /\ s[Len(s)] = " " THEN TrimRight(SubSeq(s, 1, Len(s) - 1))
  ELSE s

Trim(s) == TrimRight(TrimLeft(s))

TextsUpTo(k) == UNION {[1..m -> Chars] : m \in 0..k}

----------------------------------------------------------------------------
(* models/Link.js *)

RECURSIVE CountCompleted(_)
CountCompleted(os) ==
  IF os = <<>> THEN 0
  ELSE (IF Head(os).status = "COMPLETED" THEN 1 ELSE 0)
       + CountCompleted(Tail(os))

\* (completedOutcomes / outcomes.length) * 100, for a non-empty outcomes
CompletionRateOf(os) == RMul(Rat(CountCompleted(os), Len(os)), RInt(100))

\* new Link({...}): the schema defaults
NewLink(teamId) ==
  [team |-> teamId, participants |-> <<>>, status |-> "PENDING",
   startedAt |-> NoDate, completedAt |-> NoDate, duration |-> 0,
   notes |-> <<>>, outcomes |-> <<>>,
   aiSummary |-> [content |-> "", generatedAt |-> NoDate],
   metrics |-> [participantCount |-> 0, outcomeCount |-> 0,
                completionRate |-> RInt(0)]]

HasParticipant(l, u) ==
  \E i \in 1..Len(l.participants) : l.participants[i].userId = u

\* an addParticipant that pushes without looking for the user
addParticipant_NoLookup(l, u, role, t) ==
  [l EXCEPT
     !.participants = Append(@, [userId |-> u, role |-> role,
                                 joinedAt |-> t]),
     !.metrics.participantCount = Len(l.participants) + 1]

addParticipant(l, u, role, t) ==
  IF ~HasParticipant(l, u)
  THEN [l EXCEPT
          !.participants = Append(@, [userId |-> u, role |-> role,
                                      joinedAt |-> t]),
          !.metrics.participantCount = Len(l.participants) + 1]
  ELSE l

startMeeting(l, t) ==
  [l EXCEPT !.status = "IN_PROGRESS", !.startedAt = t]

completeMeeting(l, duration, notes, t) ==
  [l EXCEPT
     !.status = "COMPLETED",
     !.completedAt = t,
     !.duration = duration,
     !.notes = Trim(notes),
     !.metrics.completionRate =
        IF Len(l.outcomes) > 0 THEN CompletionRateOf(l.outcomes) ELSE @,
     !.metrics.outcomeCount = Len(l.outcomes)]

\* an addOutcome that puts the new outcome in front of the others
addOutcome_InFront(l, type) ==
  [l EXCEPT
     !.outcomes = <<[type |-> type, status |-> "PENDING"]>> \o @,
     !.metrics.outcomeCount = Len(l.outcomes) + 1]

addOutcome(l, type) ==
  [l EXCEPT
     !.outcomes = Append(@, [type |-> type, status |-> "PENDING"]),
     !.metrics.outcomeCount = Len(l.outcomes) + 1]

\* a save hook that counts the outcomes but forgets the completion rate
LinkPreSave_NoRate(loaded, l) ==
  LET l1 == IF l.participants # loaded.participants
            THEN [l EXCEPT !.metrics.participantCount = Len(l.participants)]
            ELSE l
  IN  IF l1.outcomes # loaded.outcomes
      THEN [l1 EXCEPT !.metrics.outcomeCount = Len(l1.outcomes)]
      ELSE l1

\* linkSchema.pre('save'); isModified(p) is "p differs from what was loaded"
LinkPreSave(loaded, l) ==
  LET l1 == IF l.participants # loaded.participants
            THEN [l EXCEPT !.metrics.participantCount = Len(l.participants)]
            ELSE l
  IN  IF l1.outcomes # loaded.outcomes
      THEN [l1 EXCEPT
              !.metrics.outcomeCount = Len(l1.outcomes),
              !.metrics.completionRate =
                 IF Len(l1.outcomes) > 0 THEN CompletionRateOf(l1.outcomes)
                 ELSE @]
      ELSE l1

\* the schema validation run by save(): the status enum
LinkValid(l) == l.status \in LinkStatus

\* a generateAISummary that stamps generatedAt before the external call
generateAISummary_StampFirst(l, ok, t) ==
  IF ok THEN [l EXCEPT !.aiSummary = [content |-> "summary",
                                      generatedAt |-> t]]
  ELSE [l EXCEPT !.aiSummary.generatedAt = t]

\* generateAISummary: the external call answers (ok) or throws (caught here)
generateAISummary(l, ok, t) ==
  IF ok THEN [l EXCEPT !.aiSummary = [content |-> "summary",
                                      generatedAt |-> t]]
  ELSE l

----------------------------------------------------------------------------
(* routes/links.js: the requests on one Link *)

Reply(op, u, target, body, code) ==
  [op |-> op, user |-> u, target |-> target, body |-> body, code |-> code]

NoBody == [none |-> TRUE]

Tick == /\ now < MaxClock
        /\ now' = now + 1

\* a start guard that only refuses finished meetings
StartLegal_AnyUnfinished(l) == l.status # "COMPLETED"

\* the status guard of POST /:linkId/start
StartLegal(l) == ~(l.status # "SCHEDULED" /\ l.status # "PENDING")

\* a complete guard that also lets a meeting that never started complete
CompleteLegal_AlsoPending(l) == l.status \in {"IN_PROGRESS", "PENDING"}

\* the status guard of POST /:linkId/complete
CompleteLegal(l) == ~(l.status # "IN_PROGRESS")

\* Joi: updateLinkSchema (status and notes of the body are modelled)
UpdateBodyValid(body) ==
  /\ body.status.given => body.status.val \in {"PENDING", "COMPLETE", "DELAYED"}
  /\ body.notes.given => body.notes.val # <<>>

\* Joi: addOutcomeSchema (the type of the body is modelled)
OutcomeBodyValid(body) == body.type \in OutcomeType

\* Object.assign(link, value): every given field is set through its setter
AssignUpdate(l, body) ==
  [l EXCEPT !.status = IF body.status.given THEN body.status.val ELSE @,
            !.notes = IF body.notes.given THEN Trim(body.notes.val) ELSE @]

\* PUT /:linkId
UpdateLinkReq(u, id, body) ==
  /\ Tick
  /\ UNCHANGED <<users, teams, tdoc, udoc, reqs>>
  /\ IF u \notin DOMAIN users
     THEN /\ resp' = Reply("update", u, id, body, 404)
          /\ UNCHANGED links
     ELSE IF ~UpdateBodyValid(body)
     THEN /\ resp' = Reply("update", u, id, body, 400)
          /\ UNCHANGED links
     ELSE IF id \notin DOMAIN links
     THEN /\ resp' = Reply("update", u, id, body, 404)
          /\ UNCHANGED links
     ELSE IF ~HasParticipant(links[id], u)
     THEN /\ resp' = Reply("update", u, id, body, 403)
          /\ UNCHANGED links
     ELSE LET l == AssignUpdate(links[id], body)
          IN  IF LinkValid(l)
              THEN /\ links' = [links EXCEPT ![id] = LinkPreSave(links[id], l)]
                   /\ resp' = Reply("update", u, id, body, 200)
              ELSE /\ resp' = Reply("update", u, id, body, 500)
                   /\ UNCHANGED links

\* a start handler that stamps startedAt before it looks at the status
StartReq_StampFirst(u, id) ==
  /\ Tick
  /\ UNCHANGED <<users, teams, tdoc, udoc, reqs>>
  /\ IF u \notin DOMAIN users \/ id \notin DOMAIN links
     THEN /\ resp' = Reply("start", u, id, NoBody, 404)
          /\ UNCHANGED links
     ELSE IF ~HasParticipant(links[id], u)
     THEN /\ resp' = Reply("start", u, id, NoBody, 403)
          /\ UNCHANGED links
     ELSE IF ~StartLegal(links[id])
     THEN /\ resp' = Reply("start", u, id, NoBody, 400)
          /\ links' = [links EXCEPT ![id].startedAt = now]
     ELSE /\ links' = [links EXCEPT
                         ![id] = LinkPreSave(@, startMeeting(@, now))]
          /\ resp' = Reply("start", u, id, NoBody, 200)

\* POST /:linkId/start
StartReq(u, id) ==
  /\ Tick
  /\ UNCHANGED <<users, teams, tdoc, udoc, reqs>>
  /\ IF u \notin DOMAIN users \/ id \notin DOMAIN links
     THEN /\ resp' = Reply("start", u, id, NoBody, 404)
          /\ UNCHANGED links
     ELSE IF ~HasParticipant(links[id], u)
     THEN /\ resp' = Reply("start", u, id, NoBody, 403)
          /\ UNCHANGED links
     ELSE IF ~StartLegal(links[id])
     THEN /\ resp' = Reply("start", u, id, NoBody, 400)
          /\ UNCHANGED links
     ELSE /\ links' = [links EXCEPT
                         ![id] = LinkPreSave(@, startMeeting(@, now))]
          /\ resp' = Reply("start", u, id, NoBody, 200)

\* POST /:linkId/complete; ai: OPENAI_API_KEY unset ("off"), or the summary
\* call answering ("ok") or throwing ("fail"); body.duration is a number
CompleteReq(u, id, body, ai) ==
  /\ Tick
  /\ UNCHANGED <<users, teams, tdoc, udoc, reqs>>
  /\ IF u \notin DOMAIN users \/ id \notin DOMAIN links
     THEN /\ resp' = Reply("complete", u, id, body, 404)
          /\ UNCHANGED links
     ELSE IF ~HasParticipant(links[id], u)
     THEN /\ resp' = Reply("complete", u, id, body, 403)
          /\ UNCHANGED links
     ELSE IF ~CompleteLegal(links[id])
     THEN /\ resp' = Reply("complete", u, id, body, 400)
          /\ UNCHANGED links
     ELSE LET l1 == LinkPreSave(links[id],
                      completeMeeting(links[id], OrNumber(body.duration, 0),
                                      OrText(body.notes, <<>>), now))
              l2 == IF ai = "off" THEN l1
                    ELSE LinkPreSave(l1, generateAISummary(l1, ai = "ok", now))
          IN  /\ links' = [links EXCEPT ![id] = l2]
              /\ resp' = [op |-> "complete", user |-> u, target |-> id,
                          body |-> body, code |-> 200, ai |-> ai]

\* POST /:linkId/outcomes
AddOutcomeReq(u, id, body) ==
  /\ Tick
  /\ UNCHANGED <<users, teams, tdoc, udoc, reqs>>
  /\ IF u \notin DOMAIN users
     THEN /\ resp' = Reply("outcome", u, id, body, 404)
          /\ UNCHANGED links
     ELSE IF ~OutcomeBodyValid(body)
     THEN /\ resp' = Reply("outcome", u, id, body, 400)
          /\ UNCHANGED links
     ELSE IF id \notin DOMAIN links
     THEN /\ resp' = Reply("outcome", u, id, body, 404)
          /\ UNCHANGED links
     ELSE IF ~HasParticipant(links[id], u)
     THEN /\ resp' = Reply("outcome", u, id, body, 403)
          /\ UNCHANGED links
     ELSE /\ links' = [links EXCEPT
                         ![id] = LinkPreSave(@, addOutcome(@, body.type))]
          /\ resp' = Reply("outcome", u, id, body, 200)

\* DELETE /:linkId
DeleteLinkReq(u, id) ==
  /\ Tick
  /\ UNCHANGED <<users, teams, tdoc, udoc, reqs>>
  /\ IF id \notin DOMAIN links
     THEN /\ resp' = Reply("deleteLink", u, id, NoBody, 404)
          /\ UNCHANGED links
     ELSE /\ links' = [x \in DOMAIN links \ {id} |-> links[x]]
          /\ resp' = Reply("deleteLink", u, id, NoBody, 200)

----------------------------------------------------------------------------
(* models/Team.js *)

TeamRoles == {"OWNER", "PM", "DEV", "DESIGN", "LEGAL", "SECURITY", "BIZ_OPS",
              "STAKEHOLDER"}
NoBadge == "null"

\* new Team({name, owner, ...}): the schema defaults
NewTeam(name, owner, t) ==
  [name |-> name, owner |-> owner, members |-> <<>>,
   stats |-> [totalLinks |-> 0, averageResponseTime |-> RInt(0),
              responseRate |-> RInt(0), activeMembers |-> 0],
   reputationBadge |-> [type |-> NoBadge, updatedAt |-> t],
   lastActivity |-> t]

\* the index of the first entry of members for user u, 0 when there is none
RECURSIVE FindMemberFrom(_, _, _)
FindMemberFrom(ms, u, i) ==
  IF i > Len(ms) THEN 0
  ELSE IF ms[i].userId = u THEN i
  ELSE FindMemberFrom(ms, u, i + 1)

FindMember(ms, u) == FindMemberFrom(ms, u, 1)

\* members.filter(member => member.isActive).length
ActiveCount(ms) == Cardinality({i \in 1..Len(ms) : ms[i].isActive})

\* an addMember that appends without looking for an existing entry
addMember_AlwaysPush(team, u, role, t) ==
  LET ms == Append(team.members, [userId |-> u, role |-> role,
                                  joinedAt |-> t, isActive |-> TRUE])
  IN  [team EXCEPT !.members = ms, !.stats.activeMembers = ActiveCount(ms)]

\* an addMember whose new entry waits for approval
addMember_Pending(team, u, role, t) ==
  LET i == FindMember(team.members, u)
      ms == IF i # 0
            THEN [team.members EXCEPT ![i].role = role, ![i].isActive = TRUE]
            ELSE Append(team.members, [userId |-> u, role |-> role,
                                       joinedAt |-> t, isActive |-> FALSE])
  IN  [team EXCEPT !.members = ms, !.stats.activeMembers = ActiveCount(ms)]

addMember(team, u, role, t) ==
  LET i == FindMember(team.members, u)
      ms == IF i # 0
            THEN [team.members EXCEPT ![i].role = role, ![i].isActive = TRUE]
            ELSE Append(team.members, [userId |-> u, role |-> role,
                                       joinedAt |-> t, isActive |-> TRUE])
  IN  [team EXCEPT !.members = ms, !.stats.activeMembers = ActiveCount(ms)]

\* a removeMember that forgets to recount the active members
removeMember_NoRecount(team, u) ==
  LET i == FindMember(team.members, u)
  IN  IF i # 0 THEN [team EXCEPT !.members[i].isActive = FALSE] ELSE team

\* a removeMember that takes the entry out of members
removeMember_Splice(team, u) ==
  LET ms == SelectSeq(team.members, LAMBDA m : m.userId # u)
  IN  [team EXCEPT !.members = ms, !.stats.activeMembers = ActiveCount(ms)]

removeMember(team, u) ==
  LET i == FindMember(team.members, u)
  IN  IF i # 0
      THEN LET ms == [team.members EXCEPT ![i].isActive = FALSE]
           IN  [team EXCEPT !.members = ms,
                            !.stats.activeMembers = ActiveCount(ms)]
      ELSE team

\* an updateStats that weighs the old average by the responseRate it was given
updateStats_NewRate(team, linkCount, responseTime, responseRate, t) ==
  LET st == team.stats
      rate == IF RLt(RInt(0), responseRate) THEN responseRate
              ELSE st.responseRate
      totalResponses == RDiv(rate, RInt(100))
      avg == IF RLt(RInt(0), responseTime)
             THEN RDiv(RAdd(RMul(st.averageResponseTime, totalResponses),
                            responseTime),
                       RAdd(totalResponses, RInt(1)))
             ELSE st.averageResponseTime
  IN  [team EXCEPT !.stats.totalLinks = @ + linkCount,
                   !.stats.averageResponseTime = avg,
                   !.stats.responseRate = rate,
                   !.lastActivity = t]

\* updateStats(linkCount, responseTime, responseRate); the last two are Numbers
updateStats(team, linkCount, responseTime, responseRate, t) ==
  LET st == team.stats
      totalResponses == RDiv(st.responseRate, RInt(100))
      avg == IF RLt(RInt(0), responseTime)
             THEN RDiv(RAdd(RMul(st.averageResponseTime, totalResponses),
                            responseTime),
                       RAdd(totalResponses, RInt(1)))
             ELSE st.averageResponseTime
      rate == IF RLt(RInt(0), responseRate) THEN responseRate
              ELSE st.responseRate
  IN  [team EXCEPT !.stats.totalLinks = @ + linkCount,
                   !.stats.averageResponseTime = avg,
                   !.stats.responseRate = rate,
                   !.lastActivity = t]

\* a badge table whose second row is tried before the first
BadgeOf_RowsSwapped(st) ==
  IF RLe(RInt(70), st.responseRate) /\ RLe(st.averageResponseTime, RInt(24))
  THEN "CLEAR_COMMUNICATORS"
  ELSE IF RLe(RInt(90), st.responseRate)
          /\ RLe(st.averageResponseTime, RInt(2))
  THEN "SUPER_RESPONDERS"
  ELSE IF RLe(RInt(50), st.responseRate)
  THEN "SLOW_STEADY"
  ELSE "GHOST_MODE"

\* the badge chosen by calculateReputationBadge
BadgeOf(st) ==
  IF RLe(RInt(90), st.responseRate) /\ RLe(st.averageResponseTime, RInt(2))
  THEN "SUPER_RESPONDERS"
  ELSE IF RLe(RInt(70), st.responseRate)
          /\ RLe(st.averageResponseTime, RInt(24))
  THEN "CLEAR_COMMUNICATORS"
  ELSE IF RLe(RInt(50), st.responseRate)
  THEN "SLOW_STEADY"
  ELSE "GHOST_MODE"

calculateReputationBadge(team, t) ==
  [team EXCEPT !.reputationBadge = [type |-> BadgeOf(team.stats),
                                    updatedAt |-> t]]

\* a save hook that never recomputes the badge
TeamPreSave_NoBadge(loaded, team, t) == team

\* teamSchema.pre('save'); isModified('stats') is "stats differs from what
\* was loaded" (for a new document: from the defaults)
TeamPreSave(loaded, team, t) ==
  IF team.stats # loaded.stats THEN calculateReputationBadge(team, t)
  ELSE team

\* the schema validation run by save(): the role enum of the members
TeamValid(team) ==
  \A i \in 1..Len(team.members) : team.members[i].role \in TeamRoles

----------------------------------------------------------------------------
(* The Link lifecycle: requests on a Link document found in the store *)

\* the request bodies tried
StatusesIn == {"PENDING", "COMPLETE", "IN_PROGRESS"}
UpdateBodies ==
  [status : {NoString} \cup {Some(s) : s \in StatusesIn},
   notes : {NoText, Some(<<" ", "a">>)}]
DurationsIn == {NoNumber, Some(30), Some(-5)}
NotesIn == {NoText} \cup {Some(s) : s \in TextsUpTo(MaxNoteLen)}
CompleteBodies == [duration : DurationsIn, notes : NotesIn]
OutcomeBodies == [type : {"DECISION", "BOGUS"}]

\* a stored User, as the schema defaults leave it
StoredUser ==
  [teams |-> <<>>,
   stats |-> [totalLinks |-> 0, averageResponseTime |-> RInt(0),
              responseRate |-> RInt(0), reputationScore |-> RInt(100)]]

\* Link documents the store can hold at start-up: any status of the schema,
\* outcomes in any status, metrics as the save hook computed them
InitOutcomes ==
  UNION {[1..m -> [type : {"DECISION"}, status : {"PENDING", "COMPLETED"}]] :
           m \in 0..MaxInitOutcomes}

InitLinkDoc(s, os) ==
  [NewLink("t1") EXCEPT
     !.participants = <<[userId |-> "u1", role |-> "INITIATOR",
                         joinedAt |-> 0]>>,
     !.status = s,
     !.startedAt = IF s \in {"IN_PROGRESS", "COMPLETED"} THEN 0 ELSE NoDate,
     !.completedAt = IF s = "COMPLETED" THEN 0 ELSE NoDate,
     !.outcomes = os,
     !.metrics = [participantCount |-> 1, outcomeCount |-> Len(os),
                  completionRate |-> IF Len(os) > 0 THEN CompletionRateOf(os)
                                     ELSE RInt(0)]]

\* the Team of the stored Link, as POST /api/teams by u1 saved it at time 0
InitTeamDoc ==
  TeamPreSave(NewTeam("A", "u1", 0),
              addMember(NewTeam("A", "u1", 0), "u1", "OWNER", 0), 0)

NoTeamDoc == [none |-> TRUE]
NoUserDoc == [none |-> TRUE]
NoResp == [op |-> "none", code |-> 0]

LinkInit ==
  /\ users = [u \in {"u1", "u2"} |->
                IF u = "u1"
                THEN [StoredUser EXCEPT
                        !.teams = <<[teamId |-> "t1", role |-> "OWNER",
                                     joinedAt |-> 0]>>]
                ELSE StoredUser]
  /\ teams = [t \in {"t1"} |-> InitTeamDoc]
  /\ \E s \in LinkStatus, os \in InitOutcomes :
        links = [id \in {"l1"} |-> InitLinkDoc(s, os)]
  /\ tdoc = NoTeamDoc
  /\ udoc = NoUserDoc
  /\ resp = NoResp
  /\ now = 1
  /\ reqs = <<>>

LinkNext ==
  \/ \E u \in UserIds : StartReq(u, "l1")
  \/ \E u \in UserIds, body \in CompleteBodies, ai \in {"off", "ok", "fail"} :
        CompleteReq(u, "l1", body, ai)
  \/ \E u \in UserIds, body \in OutcomeBodies : AddOutcomeReq(u, "l1", body)
  \/ \E u \in UserIds, body \in UpdateBodies : UpdateLinkReq(u, "l1", body)
  \/ \E u \in UserIds : DeleteLinkReq(u, "l1")

LinkSpec == LinkInit /\ [][LinkNext]_vars

----------------------------------------------------------------------------
(* Properties of the Link lifecycle (LinkSpec) *)

\* the step just taken handled a request `op`
Handled(op) == now' # now /\ resp'.op = op

\* the requester of the step is a stored user and a participant of the link
Admitted == /\ resp'.user \in DOMAIN users
            /\ resp'.target \in DOMAIN links
            /\ HasParticipant(links[resp'.target], resp'.user)

\* C1: a start request succeeds only on a Link whose status is PENDING or
\* SCHEDULED, and then the Link is IN_PROGRESS with startedAt = the time of
\* the request; a participant's start request on a Link in any other status
\* is answered 400 (invalid status) and the Link is left as it was.
C1_StartOnlyFromPendingOrScheduled ==
  [][Handled("start") =>
       LET id == resp'.target IN
       /\ resp'.code = 200 =>
            /\ links[id].status \in {"PENDING", "SCHEDULED"}
            /\ links'[id].status = "IN_PROGRESS"
            /\ links'[id].startedAt = now
       /\ Admitted =>
            IF links[id].status \in {"PENDING", "SCHEDULED"}
            THEN resp'.code = 200
            ELSE resp'.code = 400 /\ links' = links]_vars

C1_Witness ==
  /\ resp.op = "start" /\ resp.code = 200
  /\ links["l1"].status = "IN_PROGRESS"
  /\ links["l1"].startedAt = now - 1

\* C2 as stated: a complete request succeeds only on a Link whose status is
\* IN_PROGRESS, and then the Link is COMPLETED, completedAt is the time of the
\* request, and duration and notes are the values given in the request; a
\* participant's complete request on a Link in any other status is answered
\* 400 and the Link is left as it was.
C2_Original ==
  [][Handled("complete") =>
       LET id == resp'.target
           body == resp'.body IN
       /\ resp'.code = 200 =>
            /\ links[id].status = "IN_PROGRESS"
            /\ links'[id].status = "COMPLETED"
            /\ links'[id].completedAt = now
            /\ body.duration.given => links'[id].duration = body.duration.val
            /\ body.notes.given => links'[id].notes = body.notes.val
       /\ Admitted =>
            IF links[id].status = "IN_PROGRESS"
            THEN resp'.code = 200
            ELSE resp'.code = 400 /\ links' = links]_vars

\* C2 (amended): as above, but notes holds the given text with its leading
\* and trailing whitespace removed (the schema's trim setter), and an absent
\* duration or notes is stored as 0 or the empty text.
C2_CompleteOnlyFromInProgress ==
  [][Handled("complete") =>
       LET id == resp'.target
           body == resp'.body IN
       /\ resp'.code = 200 =>
            /\ links[id].status = "IN_PROGRESS"
            /\ links'[id].status = "COMPLETED"
            /\ links'[id].completedAt = now
            /\ links'[id].duration =
                 IF body.duration.given THEN body.duration.val ELSE 0
            /\ links'[id].notes =
                 IF body.notes.given THEN Trim(body.notes.val) ELSE <<>>
       /\ Admitted =>
            IF links[id].status = "IN_PROGRESS"
            THEN resp'.code = 200
            ELSE resp'.code = 400 /\ links' = links]_vars

C2_Witness ==
  /\ resp.op = "complete" /\ resp.code = 200
  /\ resp.body.notes = Some(<<" ">>)
  /\ resp.body.duration = Some(30)
  /\ links["l1"].status = "COMPLETED"
  /\ links["l1"].duration = 30
  /\ links["l1"].notes = <<>>

\* C3: once the status of a Link is IN_PROGRESS, COMPLETED, CANCELLED or
\* NO_SHOW, no request on the Link sets it back to PENDING or SCHEDULED.
C3_NoWayBack ==
  [][\A id \in DOMAIN links \cap DOMAIN links' :
       links[id].status \in {"IN_PROGRESS", "COMPLETED", "CANCELLED", "NO_SHOW"}
         => links'[id].status \notin {"PENDING", "SCHEDULED"}]_vars

\* C4: the completionRate of every stored Link is 0 when it has no outcomes
\* and 100 * (outcomes in status COMPLETED) / (outcomes) otherwise.
C4_CompletionRateExact ==
  \A id \in DOMAIN links :
     LET os == links[id].outcomes IN
     links[id].metrics.completionRate =
       IF Len(os) = 0 THEN RInt(0) ELSE Rat(100 * CountCompleted(os), Len(os))

C4_Witness ==
  /\ resp.op = "outcome" /\ resp.code = 200
  /\ Len(links["l1"].outcomes) = 2
  /\ CountCompleted(links["l1"].outcomes) = 1
  /\ links["l1"].metrics.completionRate = RInt(50)

\* C12 (the completion flow): every successful complete request has called
\* updateStats on the Link's team and saved it before it responds, so the
\* stored team's lastActivity is the time of the request.
C12_CompletionUpdatesTeamStats ==
  [][(Handled("complete") /\ resp'.code = 200) =>
       LET t == links[resp'.target].team IN
       /\ t \in DOMAIN teams'
       /\ teams'[t].lastActivity = now]_vars

\* C18: a successful add-outcome request appends exactly one outcome, of the
\* given type and with status PENDING, at the end of outcomes; the outcomes
\* already there, the status, the timestamps and the participants of the Link
\* stay as they were; afterwards metrics.outcomeCount is outcomes.length; and
\* a participant's valid request succeeds in whatever status the Link is.
C18_AddOutcomeFrame ==
  [][Handled("outcome") =>
       LET id == resp'.target IN
       /\ resp'.code = 200 =>
            LET before == links[id]
                after == links'[id]
                n == Len(before.outcomes)
            IN  /\ Len(after.outcomes) = n + 1
                /\ SubSeq(after.outcomes, 1, n) = before.outcomes
                /\ after.outcomes[n + 1] = [type |-> resp'.body.type,
                                            status |-> "PENDING"]
                /\ after.status = before.status
                /\ after.startedAt = before.startedAt
                /\ after.completedAt = before.completedAt
                /\ after.participants = before.participants
                /\ after.metrics.outcomeCount = Len(after.outcomes)
       /\ (Admitted /\ OutcomeBodyValid(resp'.body)) => resp'.code = 200]_vars

\* an outcome added to a COMPLETED Link behind an outcome that is COMPLETED
C18_Witness ==
  /\ resp.op = "outcome" /\ resp.code = 200
  /\ links["l1"].status = "COMPLETED"
  /\ Len(links["l1"].outcomes) = 2
  /\ links["l1"].outcomes[1].status = "COMPLETED"
  /\ links["l1"].outcomes[2].status = "PENDING"
  /\ links["l1"].metrics.outcomeCount = 2

\* C21: a participant's complete request on a Link in IN_PROGRESS is answered
\* 200 and leaves the Link stored as COMPLETED whether the summary call is
\* not configured, answers or throws; when it throws, aiSummary is what it
\* was before the request (when it answers, aiSummary is the new summary).
C21_SummaryFailureTolerated ==
  [][Handled("complete") =>
       LET id == resp'.target IN
       /\ (Admitted /\ links[id].status = "IN_PROGRESS") =>
            /\ resp'.code = 200
            /\ links'[id].status = "COMPLETED"
            /\ links'[id].completedAt = now
       /\ resp'.code = 200 =>
            /\ resp'.ai \in {"off", "fail"} =>
                 links'[id].aiSummary = links[id].aiSummary
            /\ resp'.ai = "ok" =>
                 links'[id].aiSummary = [content |-> "summary",
                                        generatedAt |-> now]]_vars

\* the summary call threw and the meeting is completed all the same
C21_Witness ==
  /\ resp.op = "complete" /\ resp.code = 200 /\ resp.ai = "fail"
  /\ links["l1"].status = "COMPLETED"
  /\ links["l1"].completedAt = now - 1
  /\ links["l1"].aiSummary = [content |-> "", generatedAt |-> NoDate]

\* C24: a start, complete, add-outcome or update request that is answered 400
\* or 403 leaves every stored Link as it was; a stored User who is not a
\* participant of the Link gets such an answer to each of the four requests,
\* and so does a participant who sends start or complete in a status that
\* does not allow it, or add-outcome or update with an invalid body.
C24_NoPartialCommit ==
  [][(now' # now /\ resp'.op \in {"start", "complete", "outcome", "update"}) =>
       LET id == resp'.target
           u == resp'.user
           stranger == /\ u \in DOMAIN users
                       /\ id \in DOMAIN links
                       /\ \A i \in 1..Len(links[id].participants) :
                             links[id].participants[i].userId # u
           refused ==
             /\ u \in DOMAIN users
             /\ id \in DOMAIN links
             /\ \/ resp'.op = "start"
                   /\ links[id].status \notin {"PENDING", "SCHEDULED"}
                \/ resp'.op = "complete" /\ links[id].status # "IN_PROGRESS"
                \/ resp'.op = "outcome" /\ resp'.body.type \notin OutcomeType
                \/ resp'.op = "update"
                   /\ resp'.body.status.given
                   /\ resp'.body.status.val
                        \notin {"PENDING", "COMPLETE", "DELAYED"}
       IN  /\ resp'.code \in {400, 403} => links' = links
           /\ (stranger \/ refused) => resp'.code \in {400, 403}]_vars

\* a complete request with a duration and notes, sent by participant u1 to a
\* Link that is still PENDING, was refused and nothing of it was stored
C24_Witness ==
  /\ resp.op = "complete" /\ resp.code = 400 /\ resp.user = "u1"
  /\ resp.body.duration = Some(30)
  /\ resp.body.notes = Some(<<"a">>)
  /\ links["l1"].status = "PENDING"
  /\ links["l1"].duration = 0
  /\ links["l1"].notes = <<>>
  /\ links["l1"].completedAt = NoDate

\* C19: the duration of every stored Link is at least 0, and it is other than
\* 0 only on a Link whose status is COMPLETED.
C19_DurationNonNegative ==
  \A id \in DOMAIN links :
     /\ links[id].duration >= 0
     /\ links[id].duration # 0 => links[id].status = "COMPLETED"

----------------------------------------------------------------------------
(* The membership registry: method calls on one Team document in memory *)

RolesIn == {"OWNER", "DEV"}

DocAddMember(u, role) ==
  /\ tdoc' = addMember(tdoc, u, role, now)
  /\ resp' = [op |-> "addMember", user |-> u, role |-> role]
  /\ UNCHANGED <<users, teams, links, udoc, now, reqs>>

DocRemoveMember(u) ==
  /\ tdoc' = removeMember(tdoc, u)
  /\ resp' = [op |-> "removeMember", user |-> u]
  /\ UNCHANGED <<users, teams, links, udoc, now, reqs>>

TeamDocInit ==
  /\ users = <<>>
  /\ teams = <<>>
  /\ links = <<>>
  /\ tdoc = NewTeam("A", "u1", 1)
  /\ udoc = NoUserDoc
  /\ resp = NoResp
  /\ now = 1
  /\ reqs = <<>>

TeamDocNext ==
  \/ \E u \in UserIds, role \in RolesIn : DocAddMember(u, role)
  \/ \E u \in UserIds : DocRemoveMember(u)

TeamDocSpec == TeamDocInit /\ [][TeamDocNext]_vars

\* the (user, role, isActive) of every entry of members, in order
Membership(ms) ==
  [i \in 1..Len(ms) |-> <<ms[i].userId, ms[i].role, ms[i].isActive>>]

EntriesOf(ms, u) == {i \in 1..Len(ms) : ms[i].userId = u}

\* C5: stats.activeMembers of a Team is the number of entries of members
\* whose isActive is true, after every addMember and removeMember call.
C5_ActiveMembersCount ==
  tdoc.stats.activeMembers =
    Cardinality({i \in 1..Len(tdoc.members) : tdoc.members[i].isActive})

\* a removeMember of a user without entry, on a team with an active and an
\* inactive member
C5_Witness ==
  /\ resp.op = "removeMember"
  /\ EntriesOf(tdoc.members, resp.user) = {}
  /\ Len(tdoc.members) = 2
  /\ tdoc.stats.activeMembers = 1

\* C6: addMember(u, role) on a Team with an entry for u (active or not) sets
\* that entry's role and makes it active, every other entry and the length of
\* members staying as they were; without an entry for u it appends one active
\* entry; either way u has exactly one entry afterwards, and a second
\* addMember(u, role) leaves the same (user, role, isActive) entries.
C6_AddMemberUpsert ==
  [][resp'.op = "addMember" =>
       LET u == resp'.user
           role == resp'.role
           before == tdoc.members
           after == tdoc'.members
           entry == [userId |-> u, role |-> role, isActive |-> TRUE]
       IN
       /\ IF EntriesOf(before, u) # {}
          THEN /\ Len(after) = Len(before)
               /\ \A i \in 1..Len(before) :
                    IF before[i].userId = u
                    THEN after[i] = [before[i] EXCEPT !.role = role,
                                                       !.isActive = TRUE]
                    ELSE after[i] = before[i]
          ELSE /\ Len(after) = Len(before) + 1
               /\ SubSeq(after, 1, Len(before)) = before
               /\ after[Len(after)] = [userId |-> u, role |-> role,
                                       joinedAt |-> now, isActive |-> TRUE]
       /\ Cardinality(EntriesOf(after, u)) = 1
       /\ Membership(addMember(tdoc', u, role, now).members)
            = Membership(after)]_vars

\* addMember(u2, DEV) has just re-activated the inactive entry of u2
C6_Witness ==
  /\ resp.op = "addMember" /\ resp.user = "u2" /\ resp.role = "DEV"
  /\ Len(tdoc.members) = 2
  /\ tdoc.members[1].userId = "u2" /\ tdoc.members[1].isActive
  /\ ~tdoc.members[2].isActive

\* C25: removeMember(u) on a Team with an entry for u sets isActive of that
\* entry to false and leaves the length of members, every other entry, and
\* every field of the Team other than the derived stats.activeMembers as they
\* were; without an entry for u it leaves the Team entirely as it was; and no
\* addMember or removeMember call makes members shorter.
C25_RemoveMemberSoftDelete ==
  [][/\ resp'.op = "removeMember" =>
          LET u == resp'.user
              before == tdoc.members
              after == tdoc'.members
          IN  IF EntriesOf(before, u) = {}
              THEN tdoc' = tdoc
              ELSE /\ Len(after) = Len(before)
                   /\ \A i \in 1..Len(before) :
                        after[i] = IF before[i].userId = u
                                   THEN [before[i] EXCEPT !.isActive = FALSE]
                                   ELSE before[i]
                   /\ [tdoc' EXCEPT !.members = before,
                                    !.stats.activeMembers =
                                       tdoc.stats.activeMembers] = tdoc
     /\ Len(tdoc'.members) >= Len(tdoc.members)]_vars

\* the active entry of u2, second of three, has just been made inactive
C25_Witness ==
  /\ resp.op = "removeMember" /\ resp.user = "u2"
  /\ Len(tdoc.members) = 3
  /\ tdoc.members[2].userId = "u2" /\ ~tdoc.members[2].isActive
  /\ tdoc.members[1].isActive /\ tdoc.members[3].isActive
  /\ tdoc.stats.activeMembers = 2

----------------------------------------------------------------------------
(* The stats aggregator: updateStats calls on one Team document in memory *)

LinkCountsIn == {-1, 0, 1}
ResponseTimesIn == {RInt(-2), RInt(0), RInt(3), RInt(9)}
ResponseRatesIn == {RInt(-10), RInt(0), RInt(50), RInt(150)}

DocUpdateStats(linkCount, responseTime, responseRate) ==
  /\ Tick
  /\ tdoc' = updateStats(tdoc, linkCount, responseTime, responseRate, now)
  /\ resp' = [op |-> "updateStats", linkCount |-> linkCount,
              responseTime |-> responseTime, responseRate |-> responseRate]
  /\ UNCHANGED <<users, teams, links, udoc, reqs>>

StatsInit ==
  /\ users = <<>>
  /\ teams = <<>>
  /\ links = <<>>
  /\ tdoc = NewTeam("A", "u1", 0)
  /\ udoc = NoUserDoc
  /\ resp = NoResp
  /\ now = 1
  /\ reqs = <<>>

StatsNext ==
  \E linkCount \in LinkCountsIn, responseTime \in ResponseTimesIn,
     responseRate \in ResponseRatesIn :
       DocUpdateStats(linkCount, responseTime, responseRate)

StatsSpec == StatsInit /\ [][StatsNext]_vars

\* C14: stats.totalLinks of a Team is never negative, whatever integer deltas
\* the updateStats calls were given.
C14_TotalLinksNonNegative == tdoc.stats.totalLinks >= 0

\* C15: an updateStats call sets responseRate to the given value when that is
\* above 0 and leaves it as it was otherwise, and the responseRate of the
\* Team is at least 0 and at most 100 after every call.
C15_ResponseRateInRange ==
  [][resp'.op = "updateStats" =>
       /\ tdoc'.stats.responseRate =
            IF RLt(RInt(0), resp'.responseRate) THEN resp'.responseRate
            ELSE tdoc.stats.responseRate
       /\ RLe(RInt(0), tdoc'.stats.responseRate)
       /\ RLe(tdoc'.stats.responseRate, RInt(100))]_vars

\* C23: an updateStats call with a responseTime above 0 sets
\* averageResponseTime to (oldAvg * r + responseTime) / (r + 1), r being the
\* hundredth of the responseRate the Team held before the call; with a
\* responseTime of 0 or less averageResponseTime stays as it was.
C23_WeightedAverage ==
  [][resp'.op = "updateStats" =>
       LET oldAvg == tdoc.stats.averageResponseTime
           r == Rat(tdoc.stats.responseRate.n, tdoc.stats.responseRate.d * 100)
           sample == resp'.responseTime
       IN  tdoc'.stats.averageResponseTime =
             IF sample.n > 0
             THEN Rat((oldAvg.n * r.n * sample.d + sample.n * oldAvg.d * r.d)
                        * r.d,
                      oldAvg.d * r.d * sample.d * (r.n + r.d))
             ELSE oldAvg]_vars

\* a Team with average 3 and responseRate 50 was given the sample 9 together
\* with the responseRate 150: (3 * 0.5 + 9) / 1.5 = 7
C23_Witness ==
  /\ resp.op = "updateStats"
  /\ resp.responseTime = RInt(9)
  /\ resp.responseRate = RInt(150)
  /\ tdoc.stats.averageResponseTime = RInt(7)
  /\ tdoc.stats.responseRate = RInt(150)

----------------------------------------------------------------------------
(* models/User.js: the reputation score *)

\* a score that is bounded below only
calculateReputationScore_NoCeiling(user) ==
  LET st == user.stats
      s1 == RAdd(RInt(100),
                 RMul(RSub(st.responseRate, RInt(50)), Rat(1, 2)))
      s2 == IF RLt(RInt(0), st.averageResponseTime)
            THEN RAdd(s1, RMul(RMax(RInt(0),
                                    RSub(RInt(24), st.averageResponseTime)),
                               RInt(2)))
            ELSE s1
      s3 == RAdd(s2, RMul(RInt(st.totalLinks), RInt(5)))
  IN  [user EXCEPT !.stats.reputationScore = RMax(RInt(0), s3)]

\* a score that counts the response time bonus for a zero average too
calculateReputationScore_ZeroTime(user) ==
  LET st == user.stats
      s1 == RAdd(RInt(100),
                 RMul(RSub(st.responseRate, RInt(50)), Rat(1, 2)))
      s2 == IF RLe(RInt(0), st.averageResponseTime)
            THEN RAdd(s1, RMul(RMax(RInt(0),
                                    RSub(RInt(24), st.averageResponseTime)),
                               RInt(2)))
            ELSE s1
      s3 == RAdd(s2, RMul(RInt(st.totalLinks), RInt(5)))
  IN  [user EXCEPT !.stats.reputationScore =
                      RMax(RInt(0), RMin(RInt(200), s3))]

\* calculateReputationScore: the document with stats.reputationScore set (the
\* value returned is that field)
calculateReputationScore(user) ==
  LET st == user.stats
      s1 == RAdd(RInt(100),
                 RMul(RSub(st.responseRate, RInt(50)), Rat(1, 2)))
      s2 == IF RLt(RInt(0), st.averageResponseTime)
            THEN RAdd(s1, RMul(RMax(RInt(0),
                                    RSub(RInt(24), st.averageResponseTime)),
                               RInt(2)))
            ELSE s1
      s3 == RAdd(s2, RMul(RInt(st.totalLinks), RInt(5)))
  IN  [user EXCEPT !.stats.reputationScore =
                      RMax(RInt(0), RMin(RInt(200), s3))]

\* userSchema.pre('save')
UserPreSave(loaded, user) ==
  IF user.stats # loaded.stats THEN calculateReputationScore(user) ELSE user

----------------------------------------------------------------------------
(* The user score: calculateReputationScore on User documents of any stats *)

UserRatesIn == {RInt(-100), RInt(0), RInt(50), Rat(151, 2), RInt(80),
                RInt(100), RInt(1000)}
UserTimesIn == {RInt(-1000), RInt(-1), RInt(0), Rat(1, 2), RInt(5), RInt(24),
                RInt(30), RInt(1000)}
UserLinksIn == {-50, 0, 3, 20, 1000}

DocCalculateScore ==
  /\ udoc' = calculateReputationScore(udoc)
  /\ resp' = [op |-> "calculateReputationScore",
              value |-> udoc'.stats.reputationScore]
  /\ UNCHANGED <<users, teams, links, tdoc, now, reqs>>

UserDocInit ==
  /\ users = <<>>
  /\ teams = <<>>
  /\ links = <<>>
  /\ tdoc = NoTeamDoc
  /\ \E rr \in UserRatesIn, art \in UserTimesIn, tl \in UserLinksIn :
       udoc = [StoredUser EXCEPT !.stats.responseRate = rr,
                                 !.stats.averageResponseTime = art,
                                 !.stats.totalLinks = tl]
  /\ resp = NoResp
  /\ now = 1
  /\ reqs = <<>>

UserDocNext == DocCalculateScore

UserDocSpec == UserDocInit /\ [][UserDocNext]_vars

\* C7: after calculateReputationScore, whatever the stats, the score is at
\* least 0 and at most 200.
C7_ScoreClamped ==
  resp.op = "calculateReputationScore" =>
    /\ RLe(RInt(0), udoc.stats.reputationScore)
    /\ RLe(udoc.stats.reputationScore, RInt(200))
    /\ resp.value = udoc.stats.reputationScore

\* a negative average response time with a sum above the ceiling
C7_Witness ==
  /\ resp.op = "calculateReputationScore"
  /\ RLt(udoc.stats.averageResponseTime, RInt(0))
  /\ udoc.stats.totalLinks = 1000
  /\ udoc.stats.reputationScore = RInt(200)

\* the score as the specification writes it
SpecScore(rr, art, tl) ==
  LET timePart == IF RLt(RInt(0), art)
                  THEN RMul(RMax(RInt(0), RSub(RInt(24), art)), RInt(2))
                  ELSE RInt(0)
      sum == RAdd(RAdd(RAdd(RInt(100), RDiv(RSub(rr, RInt(50)), RInt(2))),
                       timePart),
                  RInt(5 * tl))
  IN  IF RLt(sum, RInt(0)) THEN RInt(0)
      ELSE IF RLt(RInt(200), sum) THEN RInt(200)
      ELSE sum

\* C8: calculateReputationScore returns clamp(100 + (responseRate - 50) * 0.5
\* + (max(0, 24 - averageResponseTime) * 2 if averageResponseTime > 0 else 0)
\* + totalLinks * 5, 0, 200); the stats (80, 5, 3) give 168.
C8_ScoreFormula ==
  resp.op = "calculateReputationScore" =>
    LET st == udoc.stats IN
    /\ resp.value = SpecScore(st.responseRate, st.averageResponseTime,
                              st.totalLinks)
    /\ (st.responseRate = RInt(80) /\ st.averageResponseTime = RInt(5)
          /\ st.totalLinks = 3) => resp.value = RInt(168)

C8_Witness ==
  /\ resp.op = "calculateReputationScore"
  /\ udoc.stats.responseRate = RInt(80)
  /\ udoc.stats.averageResponseTime = RInt(5)
  /\ udoc.stats.totalLinks = 3
  /\ resp.value = RInt(168)

----------------------------------------------------------------------------
(* The team badge: calculateReputationBadge on Team documents of any stats *)

TeamRatesIn == {RInt(-10), RInt(0), RInt(40), RInt(49), RInt(50), RInt(69),
                RInt(70), Rat(179, 2), RInt(90), RInt(95), RInt(100),
                RInt(150)}
TeamTimesIn == {RInt(-1), RInt(0), RInt(1), RInt(2), Rat(5, 2), RInt(10),
                RInt(24), Rat(49, 2), RInt(25), RInt(1000)}

DocCalculateBadge ==
  /\ tdoc' = calculateReputationBadge(tdoc, now)
  /\ resp' = [op |-> "calculateReputationBadge",
              value |-> tdoc'.reputationBadge.type]
  /\ UNCHANGED <<users, teams, links, udoc, now, reqs>>

BadgeInit ==
  /\ users = <<>>
  /\ teams = <<>>
  /\ links = <<>>
  /\ \E rr \in TeamRatesIn, art \in TeamTimesIn :
       tdoc = [NewTeam("A", "u1", 1) EXCEPT
                 !.stats.responseRate = rr, !.stats.averageResponseTime = art]
  /\ udoc = NoUserDoc
  /\ resp = NoResp
  /\ now = 1
  /\ reqs = <<>>

BadgeNext == DocCalculateBadge

BadgeSpec == BadgeInit /\ [][BadgeNext]_vars

\* the rows of the priority table whose condition (rr, art) meets
RowsMet(rr, art) ==
  (IF RLe(RInt(90), rr) /\ RLe(art, RInt(2)) THEN {1} ELSE {})
  \cup (IF RLe(RInt(70), rr) /\ RLe(art, RInt(24)) THEN {2} ELSE {})
  \cup (IF RLe(RInt(50), rr) THEN {3} ELSE {})
  \cup {4}

RowBadge ==
  <<"SUPER_RESPONDERS", "CLEAR_COMMUNICATORS", "SLOW_STEADY", "GHOST_MODE">>

\* C9: calculateReputationBadge gives every (responseRate,
\* averageResponseTime) the badge of the first row of the priority table that
\* it meets; (95, 1) gets SUPER_RESPONDERS and (40, 10) gets GHOST_MODE.
C9_BadgeTable ==
  resp.op = "calculateReputationBadge" =>
    LET rr == tdoc.stats.responseRate
        art == tdoc.stats.averageResponseTime
        first == CHOOSE r \in RowsMet(rr, art) :
                   \A q \in RowsMet(rr, art) : r <= q
    IN
    /\ tdoc.reputationBadge.type = RowBadge[first]
    /\ resp.value = RowBadge[first]
    /\ (rr = RInt(95) /\ art = RInt(1)) => resp.value = "SUPER_RESPONDERS"
    /\ (rr = RInt(40) /\ art = RInt(10)) => resp.value = "GHOST_MODE"

C9_Witness ==
  /\ resp.op = "calculateReputationBadge"
  /\ tdoc.stats.responseRate = RInt(95)
  /\ tdoc.stats.averageResponseTime = RInt(1)
  /\ tdoc.reputationBadge.type = "SUPER_RESPONDERS"

----------------------------------------------------------------------------
(* routes/teams.js and POST /api/links: requests on the stored Teams.      *)
(* These handlers do not advance the clock: no property stated on them     *)
(* compares dates.                                                         *)

\* the required paths of userSchema: User.create without them is rejected
UserCreateValid(given) == {"email", "name", "role"} \subseteq given

\* the document User.create saves: the defaults, and when the caller gives
\* stats ({reputationScore: 0, averageResponseTime: 0} and paths that are not
\* in the schema) those, marked modified, so that the save hook runs
NewUser(given) ==
  IF "stats" \in given
  THEN UserPreSave(StoredUser,
                   [StoredUser EXCEPT !.stats.reputationScore = RInt(0)])
  ELSE StoredUser

\* `User.findOne({ email }) || User.create({...})`: the collection afterwards,
\* or a failure when the created document does not validate
FindOrCreateUser(u, given) ==
  IF u \in DOMAIN users THEN [ok |-> TRUE, users |-> users]
  ELSE IF UserCreateValid(given)
  THEN [ok |-> TRUE, users |-> users @@ (u :> NewUser(given))]
  ELSE [ok |-> FALSE, users |-> users]

\* the team ids some stored document still refers to
ReferencedTeams ==
  UNION {{users[u].teams[i].teamId : i \in 1..Len(users[u].teams)} :
           u \in DOMAIN users}
  \cup {links[l].team : l \in DOMAIN links}

\* a new ObjectId: one that no stored document holds or refers to
UnusedTeamIds == TeamIds \ (DOMAIN teams \cup ReferencedTeams)
FreshTeamId == CHOOSE id \in UnusedTeamIds : TRUE
FreshLinkId == CHOOSE id \in LinkIds \ DOMAIN links : TRUE

\* POST /api/teams by the bearer of u's token
CreateTeamReq(u, name) ==
  /\ UNCHANGED <<links, tdoc, udoc, now, reqs>>
  /\ LET found == FindOrCreateUser(u, {"email", "avatar", "onboarded", "role"})
     IN
     IF ~found.ok
     THEN /\ resp' = Reply("createTeam", u, name, NoBody, 500)
          /\ UNCHANGED <<users, teams>>
     ELSE IF \E t \in DOMAIN teams : teams[t].name = name /\ teams[t].owner = u
     THEN /\ resp' = Reply("createTeam", u, name, NoBody, 409)
          /\ users' = found.users
          /\ UNCHANGED teams
     ELSE /\ UnusedTeamIds # {}
          /\ LET fresh == NewTeam(name, u, now)
                 team == addMember(fresh, u, "OWNER", now)
                 id == FreshTeamId
             IN  IF TeamValid(team)
                 THEN /\ teams' = teams @@ (id :> TeamPreSave(fresh, team, now))
                      /\ users' = [found.users EXCEPT
                                     ![u].teams = Append(@,
                                        [teamId |-> id, role |-> "OWNER",
                                         joinedAt |-> now])]
                      /\ resp' = Reply("createTeam", u, name, [team |-> id], 201)
                 ELSE /\ resp' = Reply("createTeam", u, name, NoBody, 500)
                      /\ users' = found.users
                      /\ UNCHANGED teams

\* POST /api/teams/:teamId/members with body {email: e, department: dept}
AddMemberReq(t, e, dept) ==
  /\ UNCHANGED <<links, tdoc, udoc, now, reqs>>
  /\ LET found == FindOrCreateUser(e, {"email", "name", "avatar", "onboarded"})
         body == [email |-> e, department |-> dept]
     IN
     IF ~found.ok
     THEN /\ resp' = Reply("addMember", e, t, body, 500)
          /\ UNCHANGED <<users, teams>>
     ELSE IF t \notin DOMAIN teams
     THEN /\ resp' = Reply("addMember", e, t, body, 500)
          /\ users' = found.users
          /\ UNCHANGED teams
     ELSE IF FindMember(teams[t].members, e) # 0
     THEN /\ resp' = Reply("addMember", e, t, body, 409)
          /\ users' = found.users
          /\ UNCHANGED teams
     ELSE LET team == addMember(teams[t], e, dept, now)
          IN  IF TeamValid(team)
              THEN /\ teams' = [teams EXCEPT
                                  ![t] = TeamPreSave(teams[t], team, now)]
                   /\ users' = [found.users EXCEPT
                                  ![e].teams = Append(@,
                                     [teamId |-> t, role |-> dept,
                                      joinedAt |-> now])]
                   /\ resp' = Reply("addMember", e, t, body, 200)
              ELSE /\ resp' = Reply("addMember", e, t, body, 500)
                   /\ users' = found.users
                   /\ UNCHANGED teams

\* $pull: { teams: { teamId } }
PullTeam(ts, t) == SelectSeq(ts, LAMBDA x : x.teamId # t)

\* DELETE /api/teams/:teamId/members/:userId by the bearer of cur's token
RemoveMemberReq(cur, t, target) ==
  /\ UNCHANGED <<links, tdoc, udoc, now, reqs>>
  /\ IF cur \notin DOMAIN users \/ t \notin DOMAIN teams
     THEN /\ resp' = Reply("removeMember", cur, t, [userId |-> target], 404)
          /\ UNCHANGED <<users, teams>>
     ELSE IF target = cur
     THEN /\ resp' = Reply("removeMember", cur, t, [userId |-> target], 400)
          /\ UNCHANGED <<users, teams>>
     ELSE /\ teams' = [teams EXCEPT
                         ![t] = TeamPreSave(@, removeMember(@, target), now)]
          /\ users' = IF target \in DOMAIN users
                      THEN [users EXCEPT ![target].teams = PullTeam(@, t)]
                      ELSE users
          /\ resp' = Reply("removeMember", cur, t, [userId |-> target], 200)

\* DELETE /api/teams/:teamId
DeleteTeamReq(t) ==
  /\ UNCHANGED <<users, links, tdoc, udoc, now, reqs>>
  /\ IF t \notin DOMAIN teams
     THEN /\ resp' = Reply("deleteTeam", "", t, NoBody, 404)
          /\ UNCHANGED teams
     ELSE /\ teams' = [x \in DOMAIN teams \ {t} |-> teams[x]]
          /\ resp' = Reply("deleteTeam", "", t, NoBody, 200)

\* GET /api/users/me by the bearer of u's token
GetMeReq(u) ==
  /\ UNCHANGED <<teams, links, tdoc, udoc, now, reqs>>
  /\ LET found == FindOrCreateUser(u, {"email", "avatar", "role", "onboarded",
                                       "stats"})
     IN  /\ users' = found.users
         /\ resp' = Reply("getMe", u, u, NoBody, IF found.ok THEN 200 ELSE 500)

\* a membership check that lets everybody in
IsMember_Everybody(team, u) == TRUE

\* team.members.find(member => member.userId === initiatorId), as a boolean
IsMember(team, u) == FindMember(team.members, u) # 0

\* link.addParticipant for validParticipants[i..]: the first is the INITIATOR
RECURSIVE AddParticipants(_, _, _, _)
AddParticipants(l, ps, i, t) ==
  IF i > Len(ps) THEN l
  ELSE AddParticipants(
         addParticipant(l, ps[i], IF i = 1 THEN "INITIATOR" ELSE "PARTICIPANT",
                        t),
         ps, i + 1, t)

\* POST /api/links by the bearer of u's token, body {teamId: t, participants}
CreateLinkReq(u, t, participants) ==
  /\ UNCHANGED <<tdoc, udoc, now, reqs>>
  /\ LET body == [participants |-> participants] IN
     IF Len(participants) < 1
     THEN /\ resp' = Reply("createLink", u, t, body, 400)
          /\ UNCHANGED <<users, teams, links>>
     ELSE IF u \notin DOMAIN users \/ t \notin DOMAIN teams
     THEN /\ resp' = Reply("createLink", u, t, body, 404)
          /\ UNCHANGED <<users, teams, links>>
     ELSE IF ~IsMember(teams[t], u)
     THEN /\ resp' = Reply("createLink", u, t, body, 403)
          /\ UNCHANGED <<users, teams, links>>
     ELSE /\ LinkIds \ DOMAIN links # {}
          /\ LET valid == <<u>> \o SelectSeq(participants,
                             LAMBDA p : FindMember(teams[t].members, p) # 0)
                 link == AddParticipants(NewLink(t), valid, 1, now)
                 id == FreshLinkId
             IN  /\ links' = links @@ (id :> LinkPreSave(NewLink(t), link))
                 /\ teams' = [teams EXCEPT
                                ![t] = TeamPreSave(@, updateStats(@, 1, RInt(0),
                                                               RInt(0), now),
                                                now)]
                 \* $inc of stats.linksCreated: not a path of userSchema, so
                 \* the update is stripped and the User stays as it was
                 /\ UNCHANGED users
                 /\ resp' = Reply("createLink", u, t,
                                  [participants |-> participants, link |-> id],
                                  201)

----------------------------------------------------------------------------
(* The team requests, from a store that holds two users and no team *)

NamesIn == {"A"}
DepartmentsIn == {"DEV", "CXO"}
ParticipantsIn == {<<>>, <<"u1", "u2", "u2">>}

Init ==
  /\ users = [u \in {"u1", "u2"} |-> StoredUser]
  /\ teams = <<>>
  /\ links = <<>>
  /\ tdoc = NoTeamDoc
  /\ udoc = NoUserDoc
  /\ resp = NoResp
  /\ now = 1
  /\ reqs = <<>>

Next ==
  \/ \E u \in UserIds, name \in NamesIn : CreateTeamReq(u, name)
  \/ \E t \in TeamIds, e \in UserIds, dept \in DepartmentsIn :
        AddMemberReq(t, e, dept)
  \/ \E cur \in UserIds, t \in TeamIds, target \in UserIds :
        RemoveMemberReq(cur, t, target)
  \/ \E u \in UserIds, t \in TeamIds, ps \in ParticipantsIn :
        CreateLinkReq(u, t, ps)
  \/ \E t \in TeamIds : DeleteTeamReq(t)
  \/ \E u \in UserIds : GetMeReq(u)

Spec == Init /\ [][Next]_vars

\* C10: the badge of every stored Team is the one the priority table assigns
\* to its stored stats; it is never null.
C10_BadgeFollowsStats ==
  \A t \in DOMAIN teams :
     LET rr == teams[t].stats.responseRate
         art == teams[t].stats.averageResponseTime
         first == CHOOSE r \in RowsMet(rr, art) :
                    \A q \in RowsMet(rr, art) : r <= q
     IN  /\ teams[t].reputationBadge.type # NoBadge
         /\ teams[t].reputationBadge.type = RowBadge[first]

\* a team that went through creation, add-member, remove-member and a link
\* creation
C10_Witness ==
  /\ resp.op = "createLink" /\ resp.code = 201
  /\ LET team == teams[resp.target] IN
     /\ team.stats.totalLinks = 1
     /\ Len(team.members) = 2
     /\ team.stats.activeMembers = 1
     /\ team.reputationBadge.type = "GHOST_MODE"

C13_CreationCountsLink ==
  [][(resp'.op = "createLink" /\ resp'.code = 201) =>
       /\ DOMAIN users' = DOMAIN users
       /\ \A v \in DOMAIN users :
            users'[v].stats.totalLinks =
              users[v].stats.totalLinks + (IF v = resp'.user THEN 1 ELSE 0)]_vars

\* the teams a User's teams entries name / the users with an active entry in
\* the members of a Team
TeamsOf(u) == {users[u].teams[i].teamId : i \in 1..Len(users[u].teams)}
ActiveMembersOf(t) ==
  {teams[t].members[i].userId :
     i \in {j \in 1..Len(teams[t].members) : teams[t].members[j].isActive}}

\* C16: between requests, a User has a teams entry for a Team exactly when
\* that Team is stored and its members hold an active entry for the User.
C16_MembershipConsistent ==
  \A u \in DOMAIN users, t \in TeamIds :
     t \in TeamsOf(u) <=> (t \in DOMAIN teams /\ u \in ActiveMembersOf(t))

\* C17: a link-creation request that names at least one participant, sent by
\* a stored User without entry in the members of the stored Team it names, is
\* answered 403 and leaves the Links, the Teams and the Users as they were;
\* a request that creates a Link comes from a User with an entry in the
\* members of the Link's team.
C17_CreationNeedsMembership ==
  [][resp'.op = "createLink" =>
       LET u == resp'.user
           t == resp'.target
       IN  /\ (/\ u \in DOMAIN users
               /\ t \in DOMAIN teams
               /\ Len(resp'.body.participants) >= 1
               /\ \A i \in 1..Len(teams[t].members) :
                     teams[t].members[i].userId # u)
              => /\ resp'.code = 403
                 /\ links' = links
                 /\ teams' = teams
                 /\ users' = users
           /\ (resp'.code = 201 \/ links' # links) =>
                /\ t \in DOMAIN teams
                /\ \E i \in 1..Len(teams[t].members) :
                      teams[t].members[i].userId = u
                /\ links'[resp'.body.link].team = t]_vars

\* u2, not in the members of the stored team, was refused
C17_Witness ==
  /\ resp.op = "createLink" /\ resp.code = 403
  /\ resp.user \in DOMAIN users
  /\ resp.target \in DOMAIN teams
  /\ Len(teams[resp.target].members) >= 1
  /\ \A i \in 1..Len(teams[resp.target].members) :
        teams[resp.target].members[i].userId # resp.user
  /\ links = <<>>
  /\ teams[resp.target].stats.totalLinks = 0

\* C20: no two entries of the participants of a stored Link name the same
\* user, and metrics.participantCount is the length of participants.
C20_ParticipantsUnique ==
  \A id \in DOMAIN links :
     LET ps == links[id].participants IN
     /\ \A i, j \in 1..Len(ps) : ps[i].userId = ps[j].userId => i = j
     /\ links[id].metrics.participantCount = Len(ps)

\* u1 created a Link from a list that names u1 itself and u2 twice
C20_Witness ==
  /\ resp.op = "createLink" /\ resp.code = 201
  /\ resp.user = "u1"
  /\ resp.body.participants = <<"u1", "u2", "u2">>
  /\ LET ps == links[resp.body.link].participants IN
     /\ Len(ps) = 2
     /\ ps[1] = [userId |-> "u1", role |-> "INITIATOR", joinedAt |-> now]
     /\ ps[2].userId = "u2"

\* C22: the Team a successful team-creation request stores has exactly one
\* entry in members, for its owner (the sender), with role OWNER and isActive
\* true, and its stats.activeMembers is 1.
C22_OwnerAutoAdded ==
  [][(resp'.op = "createTeam" /\ resp'.code = 201) =>
       LET id == resp'.body.team IN
       /\ id \notin DOMAIN teams
       /\ id \in DOMAIN teams'
       /\ teams'[id].owner = resp'.user
       /\ teams'[id].members = <<[userId |-> resp'.user, role |-> "OWNER",
                                  joinedAt |-> now, isActive |-> TRUE]>>
       /\ teams'[id].stats.activeMembers = 1]_vars

\* u2 has just created a second team
C22_Witness ==
  /\ resp.op = "createTeam" /\ resp.code = 201 /\ resp.user = "u2"
  /\ Cardinality(DOMAIN teams) = 2
  /\ Len(teams[resp.body.team].members) = 1
  /\ teams[resp.body.team].members[1].userId = "u2"
  /\ teams[resp.body.team].stats.activeMembers = 1

\* C28: the owner of every stored Team has an active entry in its members.
C28_OwnerStaysActive ==
  \A t \in DOMAIN teams : teams[t].owner \in ActiveMembersOf(t)

\* C29: a request that creates a Link comes from a User with an active entry
\* in the members of the Link's team, and every participant of the new Link
\* has an active entry there.
C29_OnlyActiveMembers ==
  [][(resp'.op = "createLink" /\ resp'.code = 201) =>
       LET t == resp'.target
           ps == links'[resp'.body.link].participants
       IN  /\ resp'.user \in ActiveMembersOf(t)
           /\ \A i \in 1..Len(ps) : ps[i].userId \in ActiveMembersOf(t)]_vars

----------------------------------------------------------------------------
(* Requests in flight. A handler gives way to other requests at each await: *)
(* between the queries that load its documents and each write. A request    *)
(* keeps what it loaded in reqs; save() writes the paths the request        *)
(* modified on its own copy, whatever the store holds by then.              *)

MaxRequests == 2     \* requests sent in one behaviour

ReqIds == 1..MaxRequests
NextReq == Cardinality(DOMAIN reqs) + 1
NoDoc == [none |-> TRUE]

\* the _id that `new Team` / `new Link` gives the document of request r
NewTeamIdOf(r) == <<"t2", "t3", "t4">>[r]
NewLinkIdOf(r) == <<"l2", "l3", "l4">>[r]

Request(op, u, target, body, pc, code, doc) ==
  [op |-> op, user |-> u, target |-> target, body |-> body, pc |-> pc,
   code |-> code, doc |-> doc]

At(r, op, pc) == r \in DOMAIN reqs /\ reqs[r].op = op /\ reqs[r].pc = pc
Put(r, req) == reqs' = (r :> req) @@ reqs
Answer(r, code) == Put(r, [reqs[r] EXCEPT !.pc = "done", !.code = code])

\* team.save() of a stored Team: $set of the paths that differ from what was
\* loaded (no request in flight modifies members)
SaveTeamPaths(stored, loaded, doc) ==
  [stored EXCEPT
     !.stats.totalLinks =
        IF doc.stats.totalLinks # loaded.stats.totalLinks
        THEN doc.stats.totalLinks ELSE @,
     !.stats.averageResponseTime =
        IF doc.stats.averageResponseTime # loaded.stats.averageResponseTime
        THEN doc.stats.averageResponseTime ELSE @,
     !.stats.responseRate =
        IF doc.stats.responseRate # loaded.stats.responseRate
        THEN doc.stats.responseRate ELSE @,
     !.reputationBadge =
        IF doc.reputationBadge # loaded.reputationBadge
        THEN doc.reputationBadge ELSE @,
     !.lastActivity =
        IF doc.lastActivity # loaded.lastActivity THEN doc.lastActivity ELSE @]

\* link.save() of a stored Link: $set of the paths that differ from what was
\* loaded (no request in flight modifies participants or outcomes)
SaveLinkPaths(stored, loaded, doc) ==
  [stored EXCEPT
     !.status = IF doc.status # loaded.status THEN doc.status ELSE @,
     !.startedAt = IF doc.startedAt # loaded.startedAt THEN doc.startedAt
                   ELSE @,
     !.completedAt = IF doc.completedAt # loaded.completedAt
                     THEN doc.completedAt ELSE @,
     !.duration = IF doc.duration # loaded.duration THEN doc.duration ELSE @,
     !.notes = IF doc.notes # loaded.notes THEN doc.notes ELSE @,
     !.metrics = IF doc.metrics # loaded.metrics THEN doc.metrics ELSE @]

\* POST /api/links, up to `new Link` and its addParticipant calls
CreateLinkFind(u, t, participants) ==
  /\ NextReq \in ReqIds
  /\ UNCHANGED <<users, teams, links, tdoc, udoc, resp, now>>
  /\ LET body == [participants |-> participants]
         new(code, doc) ==
           Request("createLink", u, t, body,
                   IF code = 0 THEN "saveLink" ELSE "done", code, doc)
     IN
     IF Len(participants) < 1
     THEN Put(NextReq, new(400, NoDoc))
     ELSE IF u \notin DOMAIN users \/ t \notin DOMAIN teams
     THEN Put(NextReq, new(404, NoDoc))
     ELSE IF ~IsMember(teams[t], u)
     THEN Put(NextReq, new(403, NoDoc))
     ELSE LET valid == <<u>> \o SelectSeq(participants,
                          LAMBDA p : FindMember(teams[t].members, p) # 0)
          IN  Put(NextReq,
                  new(0, [team |-> teams[t],
                          link |-> AddParticipants(NewLink(t), valid, 1, now)]))

\* POST /api/links: await link.save()
CreateLinkSaveLink(r) ==
  /\ At(r, "createLink", "saveLink")
  /\ links' = links @@ (NewLinkIdOf(r) :>
                          LinkPreSave(NewLink(reqs[r].target), reqs[r].doc.link))
  /\ Put(r, [reqs[r] EXCEPT !.pc = "saveTeam"])
  /\ UNCHANGED <<users, teams, tdoc, udoc, resp, now>>

\* POST /api/links: team.updateStats(1, 0); await team.save(), then the User
\* update (stripped, see CreateLinkReq) and the answer
CreateLinkSaveTeam(r) ==
  /\ At(r, "createLink", "saveTeam")
  /\ LET t == reqs[r].target
         loaded == reqs[r].doc.team
         doc == TeamPreSave(loaded,
                            updateStats(loaded, 1, RInt(0), RInt(0), now), now)
     IN  teams' = [teams EXCEPT ![t] = SaveTeamPaths(@, loaded, doc)]
  /\ Answer(r, 201)
  /\ UNCHANGED <<users, links, tdoc, udoc, resp, now>>

\* POST /:linkId/start, up to link.startMeeting()
StartFind(u, id) ==
  /\ NextReq \in ReqIds
  /\ UNCHANGED <<users, teams, links, tdoc, udoc, resp, now>>
  /\ LET new(code, doc) ==
           Request("start", u, id, NoBody,
                   IF code = 0 THEN "save" ELSE "done", code, doc)
     IN
     IF u \notin DOMAIN users \/ id \notin DOMAIN links
     THEN Put(NextReq, new(404, NoDoc))
     ELSE IF ~HasParticipant(links[id], u)
     THEN Put(NextReq, new(403, NoDoc))
     ELSE IF ~StartLegal(links[id])
     THEN Put(NextReq, new(400, NoDoc))
     ELSE Put(NextReq, new(0, [link |-> links[id]]))

\* POST /:linkId/start: await link.save(), then the answer
StartSave(r) ==
  /\ At(r, "start", "save")
  /\ LET id == reqs[r].target
         loaded == reqs[r].doc.link
         doc == LinkPreSave(loaded, startMeeting(loaded, now))
     IN  links' = [links EXCEPT ![id] = SaveLinkPaths(@, loaded, doc)]
  /\ Answer(r, 200)
  /\ UNCHANGED <<users, teams, tdoc, udoc, resp, now>>

\* POST /:linkId/complete, up to link.completeMeeting(...)
CompleteFind(u, id, body) ==
  /\ NextReq \in ReqIds
  /\ UNCHANGED <<users, teams, links, tdoc, udoc, resp, now>>
  /\ LET new(code, doc) ==
           Request("complete", u, id, body,
                   IF code = 0 THEN "save" ELSE "done", code, doc)
     IN
     IF u \notin DOMAIN users \/ id \notin DOMAIN links
     THEN Put(NextReq, new(404, NoDoc))
     ELSE IF ~HasParticipant(links[id], u)
     THEN Put(NextReq, new(403, NoDoc))
     ELSE IF ~CompleteLegal(links[id])
     THEN Put(NextReq, new(400, NoDoc))
     ELSE Put(NextReq, new(0, [link |-> links[id]]))

\* POST /:linkId/complete: await link.save(), then the answer
\* (OPENAI_API_KEY is not set: no summary)
CompleteSave(r) ==
  /\ At(r, "complete", "save")
  /\ LET id == reqs[r].target
         body == reqs[r].body
         loaded == reqs[r].doc.link
         doc == LinkPreSave(loaded,
                  completeMeeting(loaded, OrNumber(body.duration, 0),
                                  OrText(body.notes, <<>>), now))
     IN  links' = [links EXCEPT ![id] = SaveLinkPaths(@, loaded, doc)]
  /\ Answer(r, 200)
  /\ UNCHANGED <<users, teams, tdoc, udoc, resp, now>>

\* POST /api/teams, up to team.addMember(ownerId, 'OWNER')
CreateTeamFind(u, name) ==
  /\ NextReq \in ReqIds
  /\ UNCHANGED <<teams, links, tdoc, udoc, resp, now>>
  /\ LET found == FindOrCreateUser(u, {"email", "avatar", "onboarded", "role"})
         new(code, doc) ==
           Request("createTeam", u, name, NoBody,
                   IF code = 0 THEN "save" ELSE "done", code, doc)
         fresh == NewTeam(name, u, now)
     IN
     /\ users' = found.users
     /\ IF ~found.ok
        THEN Put(NextReq, new(500, NoDoc))
        ELSE IF \E t \in DOMAIN teams :
                   teams[t].name = name /\ teams[t].owner = u
        THEN Put(NextReq, new(409, NoDoc))
        ELSE Put(NextReq, new(0, [fresh |-> fresh,
                                  team |-> addMember(fresh, u, "OWNER", now)]))

\* POST /api/teams: await team.save()
CreateTeamSave(r) ==
  /\ At(r, "createTeam", "save")
  /\ IF TeamValid(reqs[r].doc.team)
     THEN /\ teams' = teams @@ (NewTeamIdOf(r) :>
                                  TeamPreSave(reqs[r].doc.fresh,
                                              reqs[r].doc.team, now))
          /\ Put(r, [reqs[r] EXCEPT !.pc = "push"])
     ELSE /\ Answer(r, 500)
          /\ UNCHANGED teams
  /\ UNCHANGED <<users, links, tdoc, udoc, resp, now>>

\* POST /api/teams: await User.findByIdAndUpdate($push teams), then the answer
CreateTeamPush(r) ==
  /\ At(r, "createTeam", "push")
  /\ users' = [users EXCEPT
                 ![reqs[r].user].teams =
                    Append(@, [teamId |-> NewTeamIdOf(r), role |-> "OWNER",
                               joinedAt |-> now])]
  /\ Answer(r, 201)
  /\ UNCHANGED <<teams, links, tdoc, udoc, resp, now>>

----------------------------------------------------------------------------
(* Interleaved requests on a store that holds team t1 of u1 and u2 and its  *)
(* Link l1                                                                  *)

ConcUsersIn == {"u1", "u3"}
ConcParticipantsIn == {<<"u2">>}
ConcCompleteBodies == [duration : {Some(30), Some(45)}, notes : {NoText}]
ConcNamesIn == {"A", "B"}

ConcTeamDoc ==
  TeamPreSave(InitTeamDoc, addMember(InitTeamDoc, "u2", "DEV", 0), 0)

ConcLinkDoc(s) ==
  LinkPreSave(InitLinkDoc(s, <<>>),
              addParticipant(InitLinkDoc(s, <<>>), "u2", "PARTICIPANT", 0))

ConcInit ==
  /\ users = [u \in {"u1", "u2"} |->
                [StoredUser EXCEPT
                   !.teams = <<[teamId |-> "t1",
                                role |-> IF u = "u1" THEN "OWNER" ELSE "DEV",
                                joinedAt |-> 0]>>]]
  /\ teams = [t \in {"t1"} |-> ConcTeamDoc]
  /\ \E s \in {"PENDING", "IN_PROGRESS"} :
        links = [id \in {"l1"} |-> ConcLinkDoc(s)]
  /\ tdoc = NoTeamDoc
  /\ udoc = NoUserDoc
  /\ resp = NoResp
  /\ now = 1
  /\ reqs = <<>>

ConcNext ==
  \/ \E u \in ConcUsersIn, ps \in ConcParticipantsIn :
        CreateLinkFind(u, "t1", ps)
  \/ \E r \in ReqIds : CreateLinkSaveLink(r)
  \/ \E r \in ReqIds : CreateLinkSaveTeam(r)
  \/ \E u \in ConcUsersIn : StartFind(u, "l1")
  \/ \E r \in ReqIds : StartSave(r)
  \/ \E u \in ConcUsersIn, body \in ConcCompleteBodies :
        CompleteFind(u, "l1", body)
  \/ \E r \in ReqIds : CompleteSave(r)
  \/ \E u \in ConcUsersIn, name \in ConcNamesIn : CreateTeamFind(u, name)
  \/ \E r \in ReqIds : CreateTeamSave(r)
  \/ \E r \in ReqIds : CreateTeamPush(r)

ConcSpec == ConcInit /\ [][ConcNext]_vars

\* the requests that were answered with `code` to `op` on `target`
Answered(op, target, code) ==
  {r \in DOMAIN reqs : /\ reqs[r].op = op /\ reqs[r].target = target
                       /\ reqs[r].pc = "done" /\ reqs[r].code = code}
AllAnswered == \A r \in DOMAIN reqs : reqs[r].pc = "done"

\* C26: once no link-creation request is in flight, stats.totalLinks of every
\* Team is the number of link-creation requests for it that were answered 201
\* (stats.totalLinks of the Team stored at start-up is 0).
C26_TotalLinksCountsCreations ==
  AllAnswered =>
    \A t \in DOMAIN teams :
       teams[t].stats.totalLinks = Cardinality(Answered("createLink", t, 201))

\* C27: of the start requests on one Link at most one is answered 200, and of
\* the complete requests on it at most one.
C27_TransitionsAppliedOnce ==
  \A id \in DOMAIN links :
     /\ Cardinality(Answered("start", id, 200)) <= 1
     /\ Cardinality(Answered("complete", id, 200)) <= 1

\* C30: no two stored Teams have the same name and the same owner, and a
\* create-team request that finds a Team of its name and owner is answered
\* 409.
C30_TeamNameUnique ==
  \A t1, t2 \in DOMAIN teams :
     (teams[t1].name = teams[t2].name /\ teams[t1].owner = teams[t2].owner)
       => t1 = t2

====
